---- MODULE Spec2Model ----
(***************************************************************************)
(* Yjs synchronization relay (src/src/yjs-websocket-server.ts).            *)
(*                                                                         *)
(* One action per event-loop callback of the server: the 'connection'      *)
(* handler, the per-connection 'message', 'close' and 'error' handlers,    *)
(* the two debounced flush timers and the heartbeat interval.  Node runs   *)
(* each callback to completion, so each is one atomic step.                *)
(*                                                                         *)
(* A document is the set of update ids merged into it; a state vector is   *)
(* that same set, and the diff against a state vector is set difference.   *)
(* Yjs objects and JS Sets are heap objects: they are named by handles,    *)
(* because the handlers of a connection keep the objects they captured at  *)
(* admission, whatever the registry maps the room name to later.           *)
(***************************************************************************)
EXTENDS Integers, Sequences, FiniteSets, TLC

\* ---------------------------------------------------------------- bounds
MaxConn == 3      \* connections ever accepted by the server
MaxFrames == 2    \* inbound frames ever processed
MaxUpd == 2       \* distinct document updates
MaxPres == 2      \* distinct presence payloads
ChurnConn == 4    \* the same two bounds, for the runs that follow rooms through
ChurnFrames == 3  \*   connection churn with document traffic only
ChurnErrors == 1  \* sockets that have failed and not yet closed, at any time
PathConn == 2     \* connections and frames of the runs that offer the server
PathFrames == 1   \*   more shapes of request path
FailConn == 3     \* connections, frames and failed transports of the runs in
FailFrames == 3   \*   which sends fail
FailBroken == 1
GuardTicks == 2   \* clock advances, of half a window each, in the guard's runs
OtherRequests == 1 \* requests of the second client address in those runs
BanTicks == 1     \* clock advances, and requests counted, in the runs that
BanCalls == 201   \*   drive one client address past the guard's limits

\* ------------------------------------------------------ program constants
FLUSH_INTERVAL == 50
AWARENESS_FLUSH_INTERVAL == 100
HEARTBEAT_INTERVAL == 30000
messageSync == 0
messageAwareness == 1
OPEN == 1               \* WebSocket.OPEN, the value the code tests readyState against
CLOSING == OPEN + 1     \* WebSocket.CLOSING
CLOSED == OPEN + 2      \* WebSocket.CLOSED
PolicyViolation == 1008

Min(S) == CHOOSE x \in S : \A y \in S : x <= y

Updates == 1..MaxUpd
PresVals == 1..MaxPres

\* Request paths offered to the server: a pathname is a sequence of characters.
Paths == { <<"/">>, <<"/", "r">> }

\* pathname.match(/^\/(.+)$/): a slash followed by at least one character
\* other than a line terminator.
roomMatch(pathname) ==
    /\ Len(pathname) >= 2
    /\ pathname[1] = "/"
    /\ \A i \in 2..Len(pathname) : pathname[i] # "\n"

\* roomMatch[1]: the capture group, the path after its leading slash.
roomNameOf(pathname) == Tail(pathname)

RoomNames == { roomNameOf(p) : p \in { q \in Paths : roomMatch(q) } }

\* ------------------------------------------------------------ JS Map, Set
MapSet(m, k, v) == [x \in (DOMAIN m) \cup {k} |-> IF x = k THEN v ELSE m[x]]
MapDelete(m, k) == [x \in (DOMAIN m) \ {k} |-> m[x]]
MapHas(m, k) == k \in DOMAIN m
EmptyMap == [x \in {} |-> 0]

\* ----------------------------------------------------------------- frames
\* A frame is the sequence of fields the decoder reads from it, in order.
SyncStep1Frame(sv) == <<messageSync, 0, sv>>
SyncStep2Frame(upd) == <<messageSync, 1, upd>>
UpdateFrame(upd) == <<messageSync, 2, upd>>
AwarenessFrame(v) == <<messageAwareness, v>>

\* Truncated frames, and frames of an unknown kind or sub-kind.
BadFrames == { <<>>, <<messageSync>>, <<messageSync, 2>>, <<2>>, <<messageSync, 3>> }

\* JSON.stringify({ error: 'Message processing failed' }), a text message.
ErrorText == <<-1, "Message processing failed">>

VARIABLES
    docs,                 \* Map roomName -> Y.Doc handle
    connections,          \* Map roomName -> Set handle
    ydoc,                 \* heap: Y.Doc handle -> update ids merged into it
    connSet,              \* heap: Set handle -> its members
    heartbeats,           \* Map ws -> interval id
    intervals,            \* setInterval ids still scheduled
    updateBuffers,        \* Map roomName -> array of {client, message}
    flushTimers,          \* Map roomName -> timeout id
    awarenessBuffers,     \* Map roomName -> array of {client, message}
    awarenessFlushTimers, \* Map roomName -> timeout id
    timeouts,             \* setTimeout callbacks scheduled and neither fired nor cleared
    readyState,           \* ws.readyState of every accepted socket
    roomName,             \* closure variable of an admitted connection's handlers
    doc,                  \* closure variable: the Y.Doc captured at admission
    roomConnections,      \* closure variable: the Set captured at admission
    errorEmitted,         \* open sockets whose 'error' event has been emitted
    closeCode,            \* code of a server-initiated close
    out,                  \* what the last callback put on the wire, in order
    nframes,              \* inbound frames processed so far
    clientDoc,            \* the document of the client behind each open connection
    own,                  \* per open connection: the updates its UPDATE frames carried
    synced,               \* connections whose STEP1 the server has answered
    offline,              \* whether a STEP2 frame has brought the server news
    broken,               \* open sockets on which ws.send reports an error
    callbacks,            \* send callbacks queued with an error, not yet run
    handled,              \* the branch the last callback took, if a 'message' handler
    requestMap,           \* RateLimitGuard: Map ip -> timestamps of admitted requests
    bannedIPs,            \* RateLimitGuard: Map ip -> time the ban ends
    now,                  \* Date.now()
    reply,                \* outcome of the guard's last call: the ip, the code,
                          \* and a bit n that flips at every call
    calls                 \* requests each address has been counted to send

vars == << docs, connections, ydoc, connSet, heartbeats, intervals,
           updateBuffers, flushTimers, awarenessBuffers, awarenessFlushTimers,
           timeouts, readyState, roomName, doc, roomConnections, errorEmitted,
           closeCode, out, nframes, clientDoc, own, synced, offline,
           broken, callbacks, handled, requestMap, bannedIPs, now, reply, calls >>

\* The state of the rate-limit guard (src/src/common/guards/rate-limit.guard.ts).
guardVars == << requestMap, bannedIPs, now, reply, calls >>

Accepted == DOMAIN readyState
Admitted == DOMAIN roomName

Init ==
    /\ docs = EmptyMap
    /\ connections = EmptyMap
    /\ ydoc = EmptyMap
    /\ connSet = EmptyMap
    /\ heartbeats = EmptyMap
    /\ intervals = {}
    /\ updateBuffers = EmptyMap
    /\ flushTimers = EmptyMap
    /\ awarenessBuffers = EmptyMap
    /\ awarenessFlushTimers = EmptyMap
    /\ timeouts = {}
    /\ readyState = EmptyMap
    /\ roomName = EmptyMap
    /\ doc = EmptyMap
    /\ roomConnections = EmptyMap
    /\ errorEmitted = {}
    /\ closeCode = EmptyMap
    /\ out = <<>>
    /\ nframes = 0
    /\ clientDoc = EmptyMap
    /\ own = EmptyMap
    /\ synced = {}
    /\ offline = FALSE
    /\ broken = {}
    /\ callbacks = {}
    /\ handled = "none"
    /\ requestMap = EmptyMap
    /\ bannedIPs = EmptyMap
    /\ now = 0
    /\ reply = [ ip |-> "", code |-> "none", n |-> 0 ]
    /\ calls = EmptyMap

\* ------------------------------------------------------- document engine
\* Y.encodeStateVector(doc): what the document already holds.
StateVector(heap, d) == heap[d]

\* Y.encodeStateAsUpdate(doc, sv): what the document holds and sv lacks.
StateAsUpdate(heap, d, sv) == heap[d] \ sv

\* Y.applyUpdate(doc, update): merging is set union (idempotent, commutative).
ApplyUpdate(heap, d, upd) == [heap EXCEPT ![d] = @ \cup upd]

\* ------------------------------------------------------------ the wire
IsUpdateFrame(f) == Len(f) >= 3 /\ f[1] = messageSync /\ f[2] = 2
IsStep1Frame(f) == Len(f) >= 3 /\ f[1] = messageSync /\ f[2] = 0
IsStep2Frame(f) == Len(f) >= 3 /\ f[1] = messageSync /\ f[2] = 1
IsAwarenessFrame(f) == Len(f) >= 1 /\ f[1] = messageAwareness

\* One ws.send or ws.ping: the destination, the bytes, which statement sent
\* them, the inbound frame they relay (seq, from; 0 when none), and whether
\* the destination was in the Set its handlers captured when they were sent,
\* and whether the send failed (its callback gets an error).
Wire(to, msg, by, seq, from, sets) ==
    [ to |-> to, msg |-> msg, by |-> by, seq |-> seq, from |-> from,
      failed |-> to \in broken,
      member |-> /\ MapHas(roomConnections, to)
                 /\ MapHas(sets, roomConnections[to])
                 /\ to \in sets[roomConnections[to]] ]

\* The updates a client reads from what the callback sent it.
Delivered(wire, c) ==
    UNION { wire[i].msg[3] :
              i \in { j \in 1..Len(wire) :
                        /\ wire[j].to = c
                        /\ ~wire[j].failed
                        /\ IsUpdateFrame(wire[j].msg) \/ IsStep2Frame(wire[j].msg) } }

\* The callbacks ws.send will call with an error: the sends that passed a
\* callback (all but the error text of the catch block and the pings) and
\* failed.
ErrorCallbacks(wire) ==
    { [ to |-> wire[i].to, by |-> wire[i].by, seq |-> wire[i].seq ] :
        i \in { j \in 1..Len(wire) :
                  wire[j].failed /\ wire[j].by \notin {"error", "ping"} } }

\* Clients apply what they are sent; the model follows a client while its
\* connection is not closed.
Receive(cdoc, wire) == [ c \in DOMAIN cdoc |-> cdoc[c] \cup Delivered(wire, c) ]

\* A connection whose 'close' or 'error' handler has run.
TornDown(c) == c \in errorEmitted \/ readyState[c] = CLOSED

\* An admitted connection that is open and has seen neither event.
Live(c) == c \in Admitted /\ readyState[c] = OPEN /\ ~TornDown(c)

LiveIn(r) == { c \in Admitted : roomName[c] = r /\ Live(c) }

\* What the client behind connection c may put on the wire: its state
\* vector (or less), updates in STEP2 and UPDATE frames, presence, and frames
\* the server cannot decode or does not know.
InFrames(c) ==
    { SyncStep1Frame(sv) : sv \in SUBSET clientDoc[c] }
    \cup { SyncStep2Frame(upd) : upd \in SUBSET Updates }
    \cup { UpdateFrame({u}) : u \in Updates }
    \cup { AwarenessFrame(v) : v \in PresVals }
    \cup BadFrames

\* Heap objects no registry entry and no handler of an unclosed socket refers
\* to are garbage.
Reachable(registry, closure, states) ==
    { registry[r] : r \in DOMAIN registry }
    \cup { closure[c] : c \in { x \in DOMAIN closure : states[x] # CLOSED } }

Collect(heap, registry, closure, states) ==
    [ h \in (DOMAIN heap) \cap Reachable(registry, closure, states) |-> heap[h] ]

\* ------------------------------------------------- wss.on('connection')
\* Refuse with the path test moved after the heartbeat is armed.
RefuseLate(c) ==
    /\ readyState' = MapSet(readyState, c, CLOSING)
    /\ closeCode' = MapSet(closeCode, c, PolicyViolation)
    /\ heartbeats' = MapSet(heartbeats, c, c)
    /\ intervals' = intervals \cup {c}
    /\ out' = <<>>
    /\ handled' = "none"
    /\ UNCHANGED << guardVars, broken, callbacks, docs, connections, ydoc, connSet,
                    updateBuffers, flushTimers, awarenessBuffers,
                    awarenessFlushTimers, timeouts, roomName, doc,
                    roomConnections, errorEmitted, nframes, clientDoc, own,
                    synced, offline >>

Refuse(c) ==
    /\ readyState' = MapSet(readyState, c, CLOSING)
    /\ closeCode' = MapSet(closeCode, c, PolicyViolation)
    /\ out' = <<>>
    /\ handled' = "none"
    /\ UNCHANGED << guardVars, broken, callbacks, docs, connections, ydoc, connSet, heartbeats, intervals,
                    updateBuffers, flushTimers, awarenessBuffers,
                    awarenessFlushTimers, timeouts, roomName, doc,
                    roomConnections, errorEmitted, nframes, clientDoc, own,
                    synced, offline >>

\* AdmissionStep1 sent before roomConnections.add(ws).
AdmissionStep1Early(c, heap, d, sets, closure) ==
    [ to |-> c, msg |-> SyncStep1Frame(StateVector(heap, d)), by |-> "step1",
      seq |-> 0, from |-> 0, failed |-> c \in broken,
      member |-> MapHas(connSet, closure[c]) /\ c \in connSet[closure[c]] ]

\* The handler's send: messageSync, then writeSyncStep1(encoder, doc). It
\* runs after roomConnections.add(ws).
AdmissionStep1(c, heap, d, sets, closure) ==
    [ to |-> c, msg |-> SyncStep1Frame(StateVector(heap, d)), by |-> "step1",
      seq |-> 0, from |-> 0, failed |-> c \in broken,
      member |-> c \in sets[closure[c]] ]

Admit(c, r) ==
    LET docs1 == IF MapHas(docs, r) THEN docs ELSE MapSet(docs, r, c)
        ydoc1 == IF MapHas(docs, r) THEN ydoc ELSE MapSet(ydoc, c, {})
        connections1 == IF MapHas(connections, r) THEN connections
                        ELSE MapSet(connections, r, c)
        connSet1 == IF MapHas(connections, r) THEN connSet
                    ELSE MapSet(connSet, c, {})
        d == docs1[r]
        rc == connections1[r]
        connSet2 == [connSet1 EXCEPT ![rc] = @ \cup {c}]
    IN  /\ docs' = docs1
        /\ ydoc' = ydoc1
        /\ connections' = connections1
        /\ connSet' = connSet2
        /\ heartbeats' = MapSet(heartbeats, c, c)
        /\ intervals' = intervals \cup {c}
        /\ readyState' = MapSet(readyState, c, OPEN)
        /\ roomName' = MapSet(roomName, c, r)
        /\ doc' = MapSet(doc, c, d)
        /\ roomConnections' = MapSet(roomConnections, c, rc)
        /\ out' = << AdmissionStep1(c, ydoc1, d, connSet2, roomConnections') >>
        /\ callbacks' = callbacks \cup ErrorCallbacks(out')
        /\ clientDoc' = MapSet(clientDoc, c, {})
        /\ own' = MapSet(own, c, {})
        /\ handled' = "none"
        /\ UNCHANGED << guardVars, broken, updateBuffers, flushTimers, awarenessBuffers,
                        awarenessFlushTimers, timeouts, errorEmitted, closeCode,
                        nframes, synced, offline >>

\* Sockets are numbered in the order the server accepts them.
Connect(c, pathname) ==
    /\ c \notin Accepted
    /\ c = Cardinality(Accepted) + 1
    /\ IF roomMatch(pathname) THEN Admit(c, roomNameOf(pathname)) ELSE Refuse(c)

\* ----------------------------------------------------- ws.on('message')
\* decoding.readVarUint and readVarUint8Array throw when they read past the
\* end of the frame: the kind always, the sub-kind of a SYNC frame, and the
\* payload of STEP1, STEP2 and UPDATE.
Throws(frame) ==
    \/ Len(frame) < 1
    \/ /\ frame[1] = messageSync
       /\ \/ Len(frame) < 2
          \/ frame[2] \in {0, 1, 2} /\ Len(frame) < 3

\* Which branch of the handler a frame takes.
Branch(frame) ==
    IF Throws(frame) THEN "throw"
    ELSE IF frame[1] = messageSync
         THEN CASE frame[2] = 0 -> "step1"
                [] frame[2] = 1 -> "step2"
                [] frame[2] = 2 -> "update"
                [] OTHER -> "nosub"
         ELSE IF frame[1] = messageAwareness THEN "awareness" ELSE "unknown"

\* A Set is iterated in insertion order; sockets join a room's Set in the
\* order they are accepted, which is the order of their numbers.
RECURSIVE InOrder(_)
InOrder(S) ==
    IF S = {} THEN <<>>
    ELSE LET m == CHOOSE x \in S : \A y \in S : x <= y
         IN  <<m>> \o InOrder(S \ {m})

\* BroadcastTargets without the test client !== ws.
BroadcastTargetsEcho(c) ==
    { client \in connSet[roomConnections[c]] : readyState[client] = OPEN }

\* roomConnections.forEach: client !== ws && client.readyState === 1
BroadcastTargets(c) ==
    { client \in connSet[roomConnections[c]] :
        client # c /\ readyState[client] = OPEN }

\* buffer.push({ client, message }) for every target, in iteration order.
\* from and seq record which inbound frame the entry relays.
Enqueue(buffers, r, c, message, seq) ==
    LET buffer == IF MapHas(buffers, r) THEN buffers[r] ELSE <<>>
        order == InOrder(BroadcastTargets(c))
        pushed == [ i \in 1..Len(order) |->
                      [ client |-> order[i], message |-> message,
                        from |-> c, seq |-> seq ] ]
    IN  MapSet(buffers, r, buffer \o pushed)

\* clearTimeout(id)
ClearTimeout(pending, id) == { t \in pending : t.id # id }

\* Rearm without the clearTimeout.
RearmKeep(pending, timers, r, id, kind, delay) ==
    pending \cup { [ id |-> id, kind |-> kind, room |-> r, delay |-> delay ] }

\* if (timers.has(room)) clearTimeout(timers.get(room)), then setTimeout.
Rearm(pending, timers, r, id, kind, delay) ==
    LET cleared == IF MapHas(timers, r) THEN ClearTimeout(pending, timers[r])
                   ELSE pending
    IN  cleared \cup { [ id |-> id, kind |-> kind, room |-> r, delay |-> delay ] }

\* readSyncStep2 and readUpdate both apply the payload to the document.
MergeFrame(heap, d, frame) ==
    IF Branch(frame) \in {"step2", "update"} THEN ApplyUpdate(heap, d, frame[3])
    ELSE heap

\* SyncReply that writes a STEP2 whatever the kind of sync message.
SyncReplyAnyKind(heap, d, frame) ==
    IF Branch(frame) = "step1"
    THEN <<messageSync, 1, StateAsUpdate(heap, d, frame[3])>>
    ELSE <<messageSync, 1, heap[d]>>

\* The bytes of syncEncoder: messageSync, then what writeSyncStep2 wrote.
SyncReply(heap, d, frame) ==
    IF Branch(frame) = "step1"
    THEN <<messageSync, 1, StateAsUpdate(heap, d, frame[3])>>
    ELSE <<messageSync>>

\* DirectReply with the sync reply sent to every connection of the room.
DirectReplyToRoom(c, frame, seq) ==
    CASE Branch(frame) = "throw" ->
           << Wire(c, ErrorText, "error", seq, c, connSet) >>
      [] Branch(frame) \in {"step1", "step2", "nosub"}
           /\ Len(SyncReply(ydoc, doc[c], frame)) > 1 ->
           LET order == InOrder(connSet[roomConnections[c]] \cup {c})
           IN  [ i \in 1..Len(order) |->
                   Wire(order[i], SyncReply(ydoc, doc[c], frame), "reply", seq, c,
                        connSet) ]
      [] OTHER -> <<>>

\* What the handler sends to the sender itself.
DirectReply(c, frame, seq) ==
    CASE Branch(frame) = "throw" ->
           << Wire(c, ErrorText, "error", seq, c, connSet) >>
      [] Branch(frame) \in {"step1", "step2", "nosub"}
           /\ Len(SyncReply(ydoc, doc[c], frame)) > 1 ->
           << Wire(c, SyncReply(ydoc, doc[c], frame), "reply", seq, c, connSet) >>
      [] OTHER -> <<>>

Message(c, frame) ==
    LET r == roomName[c]
        seq == nframes + 1
        b == Branch(frame)
    IN  /\ c \in Admitted
        /\ readyState[c] = OPEN
        /\ nframes' = seq
        /\ ydoc' = MergeFrame(ydoc, doc[c], frame)
        /\ updateBuffers' = IF b = "update"
                            THEN Enqueue(updateBuffers, r, c, frame, seq)
                            ELSE updateBuffers
        /\ awarenessBuffers' = IF b = "awareness"
                               THEN Enqueue(awarenessBuffers, r, c, frame, seq)
                               ELSE awarenessBuffers
        /\ flushTimers' = IF b = "update" THEN MapSet(flushTimers, r, seq)
                          ELSE flushTimers
        /\ awarenessFlushTimers' = IF b = "awareness"
                                   THEN MapSet(awarenessFlushTimers, r, seq)
                                   ELSE awarenessFlushTimers
        /\ timeouts' =
             CASE b = "update" ->
                    Rearm(timeouts, flushTimers, r, seq, "update", FLUSH_INTERVAL)
               [] b = "awareness" ->
                    Rearm(timeouts, awarenessFlushTimers, r, seq, "awareness",
                          AWARENESS_FLUSH_INTERVAL)
               [] OTHER -> timeouts
        /\ out' = DirectReply(c, frame, seq)
        /\ handled' = b
        /\ callbacks' = callbacks \cup ErrorCallbacks(out')
        /\ clientDoc' = Receive([clientDoc EXCEPT
                                   ![c] = IF b \in {"step2", "update"}
                                          THEN @ \cup frame[3] ELSE @], out')
        /\ own' = [own EXCEPT ![c] = IF b = "update" THEN @ \cup frame[3] ELSE @]
        /\ synced' = IF b = "step1" THEN synced \cup {c} ELSE synced
        /\ offline' = (offline \/ (b = "step2" /\ ~(frame[3] \subseteq ydoc[doc[c]])))
        /\ UNCHANGED << guardVars, broken, docs, connections, connSet, heartbeats, intervals,
                        readyState, roomName, doc, roomConnections,
                        errorEmitted, closeCode >>

\* ------------------------------------------------------ flush callbacks
\* Sendable without the test of readyState.
SendableAlways(client) == client \in Accepted

\* The test both flush loops apply to an entry: client.readyState === 1.
Sendable(client) == readyState[client] = OPEN

\* The keys of the Map a flush builds by scanning the buffer, in insertion
\* order: the sendable clients, by first appearance.
RECURSIVE KeysInOrder(_, _)
KeysInOrder(buffer, seen) ==
    IF buffer = <<>> THEN <<>>
    ELSE LET client == Head(buffer).client
         IN  IF client \in seen \/ ~Sendable(client)
             THEN KeysInOrder(Tail(buffer), seen)
             ELSE <<client>> \o KeysInOrder(Tail(buffer), seen \cup {client})

\* clientMessages with the client's entries in the opposite order.
clientMessagesReversed(buffer, client) ==
    LET mine == SelectSeq(buffer, LAMBDA e : e.client = client)
    IN  [ i \in 1..Len(mine) |-> mine[Len(mine) + 1 - i] ]

\* flushUpdateBuffer groups the entries by client: clientMessages.get(client)
\* is the client's entries in the order they were pushed.
clientMessages(buffer, client) ==
    SelectSeq(buffer, LAMBDA e : e.client = client)

\* flushAwarenessBuffer keeps one entry per client, the last one pushed:
\* latestByClient.set(client, message).
latestByClient(buffer, client) ==
    LET mine == SelectSeq(buffer, LAMBDA e : e.client = client)
    IN  IF mine = <<>> THEN <<>> ELSE << mine[Len(mine)] >>

\* client.send(message) for each entry.
SendEntries(entries, by) ==
    [ i \in 1..Len(entries) |->
        Wire(entries[i].client, entries[i].message, by, entries[i].seq,
             entries[i].from, connSet) ]

\* SendAll that stops at the first client a send to which fails.
RECURSIVE SendAllAbort(_, _, _)
SendAllAbort(keys, buffer, by) ==
    IF keys = <<>> THEN <<>>
    ELSE LET sent == SendEntries(IF by = "update"
                                 THEN clientMessages(buffer, Head(keys))
                                 ELSE latestByClient(buffer, Head(keys)), by)
         IN  IF \E i \in 1..Len(sent) : sent[i].failed THEN sent
             ELSE sent \o SendAllAbort(Tail(keys), buffer, by)

\* clientMessages.forEach / latestByClient.forEach: each key's messages are
\* sent in turn, the update flush sending the client's list, the presence
\* flush its one kept message.
RECURSIVE SendAll(_, _, _)
SendAll(keys, buffer, by) ==
    IF keys = <<>> THEN <<>>
    ELSE SendEntries(IF by = "update" THEN clientMessages(buffer, Head(keys))
                     ELSE latestByClient(buffer, Head(keys)), by)
         \o SendAll(Tail(keys), buffer, by)

flushUpdateBuffer(r) ==
    IF ~MapHas(updateBuffers, r) \/ updateBuffers[r] = <<>>
    THEN /\ out' = <<>>
         /\ UNCHANGED updateBuffers
    ELSE /\ out' = SendAll(KeysInOrder(updateBuffers[r], {}), updateBuffers[r],
                           "update")
         /\ updateBuffers' = MapSet(updateBuffers, r, <<>>)

flushAwarenessBuffer(r) ==
    IF ~MapHas(awarenessBuffers, r) \/ awarenessBuffers[r] = <<>>
    THEN /\ out' = <<>>
         /\ UNCHANGED awarenessBuffers
    ELSE /\ out' = SendAll(KeysInOrder(awarenessBuffers[r], {}), awarenessBuffers[r],
                           "awareness")
         /\ awarenessBuffers' = MapSet(awarenessBuffers, r, <<>>)

\* setTimeout(() => { flushUpdateBuffer(roomName); flushTimers.delete(roomName) })
FlushTimerFire(t) ==
    /\ t \in timeouts
    /\ t.kind = "update"
    /\ timeouts' = timeouts \ {t}
    /\ flushUpdateBuffer(t.room)
    /\ flushTimers' = MapDelete(flushTimers, t.room)
    /\ callbacks' = callbacks \cup ErrorCallbacks(out')
    /\ clientDoc' = Receive(clientDoc, out')
    /\ handled' = "none"
    /\ UNCHANGED << guardVars, broken, docs, connections, ydoc, connSet, heartbeats, intervals,
                    awarenessBuffers, awarenessFlushTimers, readyState, roomName,
                    doc, roomConnections, errorEmitted, closeCode, nframes,
                    own, synced, offline >>

AwarenessTimerFire(t) ==
    /\ t \in timeouts
    /\ t.kind = "awareness"
    /\ timeouts' = timeouts \ {t}
    /\ flushAwarenessBuffer(t.room)
    /\ callbacks' = callbacks \cup ErrorCallbacks(out')
    /\ awarenessFlushTimers' = MapDelete(awarenessFlushTimers, t.room)
    /\ handled' = "none"
    /\ UNCHANGED << guardVars, broken, docs, connections, ydoc, connSet, heartbeats, intervals,
                    updateBuffers, flushTimers, readyState, roomName,
                    doc, roomConnections, errorEmitted, closeCode, nframes,
                    clientDoc, own, synced, offline >>

\* ------------------------------------------------------------- heartbeat
\* HeartbeatTick that evicts a socket that is not open from its room's Set.
HeartbeatTickEvict(c) ==
    /\ c \in intervals
    /\ IF readyState[c] = OPEN
       THEN /\ out' = << Wire(c, <<>>, "ping", 0, 0, connSet) >>
            /\ UNCHANGED << intervals, heartbeats, connSet >>
       ELSE /\ intervals' = intervals \ {c}
            /\ heartbeats' = MapDelete(heartbeats, c)
            /\ connSet' = [connSet EXCEPT ![roomConnections[c]] = @ \ {c}]
            /\ out' = <<>>
    /\ handled' = "none"
    /\ UNCHANGED << guardVars, broken, callbacks, docs, connections, ydoc, updateBuffers, flushTimers,
                    awarenessBuffers, awarenessFlushTimers, timeouts, readyState,
                    roomName, doc, roomConnections, errorEmitted, closeCode,
                    nframes, clientDoc, own, synced, offline >>

\* setInterval callback: ping an open socket, otherwise cancel itself.
HeartbeatTick(c) ==
    /\ c \in intervals
    /\ IF readyState[c] = OPEN
       THEN /\ out' = << Wire(c, <<>>, "ping", 0, 0, connSet) >>
            /\ UNCHANGED << intervals, heartbeats >>
       ELSE /\ intervals' = intervals \ {c}
            /\ heartbeats' = MapDelete(heartbeats, c)
            /\ out' = <<>>
    /\ handled' = "none"
    /\ UNCHANGED << guardVars, broken, callbacks, docs, connections, ydoc, connSet, updateBuffers, flushTimers,
                    awarenessBuffers, awarenessFlushTimers, timeouts, readyState,
                    roomName, doc, roomConnections, errorEmitted, closeCode,
                    nframes, clientDoc, own, synced, offline >>

\* ------------------------------------------------------- close and error
\* roomConnections.delete(ws), on the Set captured at admission.
RemoveFromRoom(c) == [connSet EXCEPT ![roomConnections[c]] = @ \ {c}]

\* ClearHeartbeat without the clearInterval.
ClearHeartbeatKeepInterval(c) ==
    /\ intervals' = intervals
    /\ heartbeats' = MapDelete(heartbeats, c)

\* const heartbeat = heartbeats.get(ws); if (heartbeat) clearInterval, delete.
ClearHeartbeat(c) ==
    /\ intervals' = IF MapHas(heartbeats, c) THEN intervals \ {heartbeats[c]}
                    ELSE intervals
    /\ heartbeats' = MapDelete(heartbeats, c)

\* CleanUpRoom that leaves the update buffer and its timer in place.
CleanUpRoomKeepUpdates(r) ==
    /\ timeouts' = IF MapHas(awarenessFlushTimers, r)
                   THEN ClearTimeout(timeouts, awarenessFlushTimers[r]) ELSE timeouts
    /\ awarenessFlushTimers' = MapDelete(awarenessFlushTimers, r)
    /\ awarenessBuffers' = MapDelete(awarenessBuffers, r)
    /\ connections' = MapDelete(connections, r)
    /\ docs' = MapDelete(docs, r)
    /\ UNCHANGED << flushTimers, updateBuffers >>

\* The clean-up of an empty room, keyed by the room's name.
CleanUpRoom(r) ==
    /\ timeouts' =
         LET t1 == IF MapHas(flushTimers, r)
                   THEN ClearTimeout(timeouts, flushTimers[r]) ELSE timeouts
         IN  IF MapHas(awarenessFlushTimers, r)
             THEN ClearTimeout(t1, awarenessFlushTimers[r]) ELSE t1
    /\ flushTimers' = MapDelete(flushTimers, r)
    /\ awarenessFlushTimers' = MapDelete(awarenessFlushTimers, r)
    /\ updateBuffers' = MapDelete(updateBuffers, r)
    /\ awarenessBuffers' = MapDelete(awarenessBuffers, r)
    /\ connections' = MapDelete(connections, r)
    /\ docs' = MapDelete(docs, r)

\* if (roomConnections.size === 0), on the Set captured at admission.
RoomIsEmpty(sets, c) == sets[roomConnections[c]] = {}

\* ws.on('close'): the socket is CLOSED when the event is emitted, and no
\* handler of a closed socket runs again.
Close(c) ==
    /\ c \in Admitted
    /\ readyState[c] # CLOSED
    /\ readyState' = [readyState EXCEPT ![c] = CLOSED]
    /\ ClearHeartbeat(c)
    /\ IF RoomIsEmpty(RemoveFromRoom(c), c)
       THEN CleanUpRoom(roomName[c])
       ELSE UNCHANGED << timeouts, flushTimers, awarenessFlushTimers,
                         updateBuffers, awarenessBuffers, connections, docs >>
    /\ connSet' = Collect(RemoveFromRoom(c), connections', roomConnections,
                          readyState')
    /\ ydoc' = Collect(ydoc, docs', doc, readyState')
    /\ errorEmitted' = errorEmitted \ {c}
    /\ broken' = broken \ {c}
    /\ out' = <<>>
    /\ clientDoc' = MapDelete(clientDoc, c)
    /\ own' = MapDelete(own, c)
    /\ synced' = synced \ {c}
    /\ handled' = "none"
    /\ UNCHANGED << guardVars, callbacks, roomName, doc, roomConnections, closeCode, nframes, offline >>

\* ws.on('error'): emitted at most once per socket, before its 'close', on a
\* socket that has left the OPEN state.
Error(c) ==
    /\ c \in Admitted
    /\ readyState[c] # CLOSED
    /\ c \notin errorEmitted
    /\ errorEmitted' = errorEmitted \cup {c}
    /\ readyState' = [readyState EXCEPT ![c] = CLOSING]
    /\ connSet' = RemoveFromRoom(c)
    /\ ClearHeartbeat(c)
    /\ out' = <<>>
    /\ handled' = "none"
    /\ UNCHANGED << guardVars, broken, callbacks, docs, connections, ydoc, updateBuffers, flushTimers,
                    awarenessBuffers, awarenessFlushTimers, timeouts, roomName,
                    doc, roomConnections, closeCode, nframes, clientDoc, own,
                    synced, offline >>

\* The peer starts the closing handshake: readyState becomes CLOSING some
\* time before 'close' is emitted.
PeerClosing(c) ==
    /\ c \in Admitted
    /\ readyState[c] = OPEN
    /\ readyState' = [readyState EXCEPT ![c] = CLOSING]
    /\ out' = <<>>
    /\ handled' = "none"
    /\ UNCHANGED << guardVars, broken, callbacks, docs, connections, ydoc, connSet, heartbeats, intervals,
                    updateBuffers, flushTimers, awarenessBuffers,
                    awarenessFlushTimers, timeouts, roomName, doc,
                    roomConnections, errorEmitted, closeCode, nframes,
                    clientDoc, own, synced, offline >>

\* The transport under an open socket fails: from now on ws.send on it
\* reports an error to its callback.  The socket's 'error' and 'close'
\* events come later.
Break(c) ==
    /\ c \in Admitted
    /\ readyState[c] = OPEN
    /\ c \notin broken
    /\ broken' = broken \cup {c}
    /\ out' = <<>>
    /\ handled' = "none"
    /\ UNCHANGED << guardVars, docs, connections, ydoc, connSet, heartbeats, intervals,
                    updateBuffers, flushTimers, awarenessBuffers,
                    awarenessFlushTimers, timeouts, readyState, roomName, doc,
                    roomConnections, errorEmitted, closeCode, nframes,
                    clientDoc, own, synced, offline, callbacks >>

\* A send callback runs with an error: if (error) console.error(...).
SendCallback(cb) ==
    /\ cb \in callbacks
    /\ callbacks' = callbacks \ {cb}
    /\ out' = <<>>
    /\ handled' = "none"
    /\ UNCHANGED << guardVars, docs, connections, ydoc, connSet, heartbeats, intervals,
                    updateBuffers, flushTimers, awarenessBuffers,
                    awarenessFlushTimers, timeouts, readyState, roomName, doc,
                    roomConnections, errorEmitted, closeCode, nframes,
                    clientDoc, own, synced, offline, broken >>

\* ---------------------------------------------------------- specification
Next ==
    \/ \E c \in 1..MaxConn, pathname \in Paths : Connect(c, pathname)
    \/ /\ nframes < MaxFrames
       /\ \E c \in DOMAIN clientDoc : \E frame \in InFrames(c) : Message(c, frame)
    \/ \E t \in timeouts : FlushTimerFire(t)
    \/ \E t \in timeouts : AwarenessTimerFire(t)
    \/ \E c \in Admitted : HeartbeatTick(c)
    \/ \E c \in Admitted : Close(c)
    \/ \E c \in Admitted : Error(c)
    \/ \E c \in Admitted : PeerClosing(c)

Spec == Init /\ [][Next]_vars

\* Rooms under connection churn: more connections and frames, with clients
\* that follow the sync protocol and only edit the document (STEP1 with the
\* client's state vector, UPDATE), and sockets that close or fail.
\* Update ids are interchangeable: a client's new update takes the least id
\* no document, client or buffer holds.
UsedUpdates ==
    UNION { ydoc[h] : h \in DOMAIN ydoc }
    \cup UNION { clientDoc[c] : c \in DOMAIN clientDoc }
    \cup UNION { UNION { updateBuffers[r][i].message[3] :
                           i \in 1..Len(updateBuffers[r]) } :
                 r \in DOMAIN updateBuffers }

ChurnFramesOf(c) ==
    { SyncStep1Frame(clientDoc[c]) }
    \cup { UpdateFrame({u}) :
             u \in { v \in Updates : \A w \in 1..(v - 1) : w \in UsedUpdates } }

ChurnNext ==
    \/ \E c \in 1..ChurnConn, pathname \in { p \in Paths : roomMatch(p) } :
         Connect(c, pathname)
    \/ /\ nframes < ChurnFrames
       /\ \E c \in DOMAIN clientDoc : \E frame \in ChurnFramesOf(c) : Message(c, frame)
    \/ \E t \in timeouts : FlushTimerFire(t)
    \/ \E c \in Admitted : Close(c)
    \/ /\ Cardinality(errorEmitted) < ChurnErrors
       /\ \E c \in Admitted : Error(c)

ChurnSpec == Init /\ [][ChurnNext]_vars

\* Admission under more shapes of request path: the root path, a path of
\* one segment and a path of two segments.
MorePaths == Paths \cup { <<"/", "r", "/", "s">> }

PathNext ==
    \/ \E c \in 1..PathConn, pathname \in MorePaths : Connect(c, pathname)
    \/ /\ nframes < PathFrames
       /\ \E c \in DOMAIN clientDoc : \E frame \in InFrames(c) : Message(c, frame)
    \/ \E t \in timeouts : FlushTimerFire(t)
    \/ \E t \in timeouts : AwarenessTimerFire(t)
    \/ \E c \in Admitted : Close(c)

PathSpec == Init /\ [][PathNext]_vars

\* Rooms in which the transport of an open socket fails, so that sends to it
\* report errors: clients send STEP1, UPDATE and presence frames.
FailFramesOf(c) == ChurnFramesOf(c) \cup { AwarenessFrame(v) : v \in {Min(PresVals)} }

FailNext ==
    \/ \E c \in 1..FailConn, pathname \in { p \in Paths : roomMatch(p) } :
         Connect(c, pathname)
    \/ /\ nframes < FailFrames
       /\ \E c \in DOMAIN clientDoc : \E frame \in FailFramesOf(c) : Message(c, frame)
    \/ \E t \in timeouts : FlushTimerFire(t)
    \/ \E t \in timeouts : AwarenessTimerFire(t)
    \/ /\ Cardinality(broken) < FailBroken
       /\ \E c \in Admitted : Break(c)
    \/ \E cb \in callbacks : SendCallback(cb)

FailSpec == Init /\ [][FailNext]_vars

\* ------------------------------------------------------- RateLimitGuard
\* this.config
windowMs == 15 * 60 * 1000
maxRequests == 100
banDuration == 30 * 60 * 1000
maxFailures == 200

\* Client addresses: getClientIP(request).
IPs == { "a", "b" }

\* The clock advances by half a window at a time, which puts requests both
\* inside a window and exactly on its edge.
tickMs == windowMs \div 2

\* requests.filter(timestamp => timestamp > windowStart)
InWindow(requests, windowStart) ==
    SelectSeq(requests, LAMBDA timestamp : timestamp > windowStart)

\* this.requestMap.get(ip) || []
RequestsOf(ip) == IF MapHas(requestMap, ip) THEN requestMap[ip] ELSE <<>>

\* bannedUntil && now < bannedUntil
Banned(ip) == MapHas(bannedIPs, ip) /\ bannedIPs[ip] # 0 /\ now < bannedIPs[ip]

\* if (bannedUntil && now >= bannedUntil) this.bannedIPs.delete(ip)
Unban(ip) ==
    IF MapHas(bannedIPs, ip) /\ bannedIPs[ip] # 0 /\ now >= bannedIPs[ip]
    THEN MapDelete(bannedIPs, ip) ELSE bannedIPs

\* handleRateLimitExceeded(ip, requestCount), called with the bans as the
\* caller left them.
handleRateLimitExceeded(ip, requestCount, bans) ==
    IF requestCount >= maxFailures
    THEN /\ bannedIPs' = MapSet(bans, ip, now + banDuration)
         /\ requestMap' = MapDelete(requestMap, ip)
    ELSE /\ bannedIPs' = bans
         /\ UNCHANGED requestMap

serverVars ==
    << docs, connections, ydoc, connSet, heartbeats, intervals, updateBuffers,
       flushTimers, awarenessBuffers, awarenessFlushTimers, timeouts,
       readyState, roomName, doc, roomConnections, errorEmitted, closeCode,
       out, nframes, clientDoc, own, synced, offline, broken, callbacks,
       handled >>

\* What a call answers: true is "allowed", a thrown HttpException its code.
Outcome(ip, code) == [ ip |-> ip, code |-> code, n |-> 1 - reply.n ]

\* The guard that admits while requests.length is at most maxRequests.
canActivateLenient(ip) ==
    /\ IF Banned(ip)
       THEN /\ reply' = Outcome(ip, "IP_BANNED")
            /\ UNCHANGED << requestMap, bannedIPs >>
       ELSE LET requests == InWindow(RequestsOf(ip), now - windowMs)
            IN  IF Len(requests) > maxRequests
                THEN /\ handleRateLimitExceeded(ip, Len(requests), Unban(ip))
                     /\ reply' = Outcome(ip, "RATE_LIMIT_EXCEEDED")
                ELSE /\ requestMap' = MapSet(requestMap, ip, Append(requests, now))
                     /\ bannedIPs' = Unban(ip)
                     /\ reply' = Outcome(ip, "allowed")
    /\ UNCHANGED << now, serverVars >>

canActivate(ip) ==
    /\ IF Banned(ip)
       THEN /\ reply' = Outcome(ip, "IP_BANNED")
            /\ UNCHANGED << requestMap, bannedIPs >>
       ELSE LET requests == InWindow(RequestsOf(ip), now - windowMs)
            IN  IF Len(requests) >= maxRequests
                THEN /\ handleRateLimitExceeded(ip, Len(requests), Unban(ip))
                     /\ reply' = Outcome(ip, "RATE_LIMIT_EXCEEDED")
                ELSE /\ requestMap' = MapSet(requestMap, ip, Append(requests, now))
                     /\ bannedIPs' = Unban(ip)
                     /\ reply' = Outcome(ip, "allowed")
    /\ UNCHANGED << now, serverVars >>

\* The records cleanupExpiredRecords keeps: an ip with a timestamp in the
\* window keeps those timestamps, any other ip is deleted.
cleanupExpiredRecords ==
    /\ requestMap' =
         [ ip \in { i \in DOMAIN requestMap :
                      InWindow(requestMap[i], now - windowMs) # <<>> } |->
             InWindow(requestMap[ip], now - windowMs) ]
    /\ bannedIPs' =
         [ ip \in { i \in DOMAIN bannedIPs : ~(now >= bannedIPs[i]) } |->
             bannedIPs[ip] ]
    /\ UNCHANGED << now, reply, calls, serverVars >>

\* Time passes.
Tick ==
    /\ now < GuardTicks * tickMs
    /\ now' = now + tickMs
    /\ UNCHANGED << requestMap, bannedIPs, reply, calls, serverVars >>

\* One address sends requests freely, the other a few.
MayRequest(ip) == ip = "a" \/ Len(RequestsOf(ip)) < OtherRequests

GuardNext ==
    \/ \E ip \in IPs : MayRequest(ip) /\ canActivate(ip) /\ UNCHANGED calls
    \/ cleanupExpiredRecords
    \/ Tick

GuardSpec == Init /\ [][GuardNext]_vars

\* One client address that keeps sending requests, all of them within one
\* window, each request counted as it is sent.
RequestCount(ip) == IF MapHas(calls, ip) THEN calls[ip] ELSE 0

BanNext ==
    \/ \E ip \in { "a" } :
         /\ RequestCount(ip) < BanCalls
         /\ canActivate(ip)
         /\ calls' = MapSet(calls, ip, RequestCount(ip) + 1)
    \/ cleanupExpiredRecords
    \/ now < BanTicks * tickMs /\ Tick

BanSpec == Init /\ [][BanNext]_vars

\* ============================================================ properties
Range(q) == { q[i] : i \in 1..Len(q) }

UpdateBufferOf(r) == IF MapHas(updateBuffers, r) THEN updateBuffers[r] ELSE <<>>
AwarenessBufferOf(r) == IF MapHas(awarenessBuffers, r) THEN awarenessBuffers[r] ELSE <<>>

\* The wires of the last callback that went to d from a flush of the given kind.
FlushedTo(wire, d, by) == SelectSeq(wire, LAMBDA o : o.to = d /\ o.by = by)

\* ---------------------------------------------------------------------
\* C1  Convergence.  In every reachable state, for every room id: when the
\* room's update buffer holds nothing and the server has answered the STEP1
\* of every connection of that room id that is still connected (and no
\* client brought edits in a STEP2 frame), all those connections' clients
\* hold the same document, and it is the document registered for the id.
Quiescent(r) ==
    /\ UpdateBufferOf(r) = <<>>
    /\ LiveIn(r) \subseteq synced
    /\ ~offline

Converged(r) ==
    /\ \A c1, c2 \in LiveIn(r) : clientDoc[c1] = clientDoc[c2]
    /\ MapHas(docs, r) => \A c \in LiveIn(r) : clientDoc[c] = ydoc[docs[r]]

C1_Convergence == \A r \in RoomNames : Quiescent(r) => Converged(r)

\* ---------------------------------------------------------------------
\* C2  No self-echo.  In every reachable state, no entry of an update buffer
\* has the connection the frame came from as its destination, and no update
\* flush has sent a frame to the connection it came from.
C2_NoSelfEcho ==
    /\ \A r \in DOMAIN updateBuffers : \A e \in Range(updateBuffers[r]) :
         e.client # e.from
    /\ \A o \in Range(out) : o.by = "update" => o.to # o.from

\* An update flush has just relayed a frame to a peer of its sender.
C2_Witness == \E o \in Range(out) : o.by = "update" /\ o.to # o.from /\ o.from # 0

\* ---------------------------------------------------------------------
\* C3  Every UPDATE frame is merged and relayed exactly once.  In every
\* step: (a) the updates an open connection sent are in the document
\* registered for its room id; (b) when connection c sends a new UPDATE,
\* the room's buffer gets exactly one entry carrying that frame for every
\* other open connection of c's room id; (c) every buffered entry goes from
\* a connection to another one of the same room set; (d) an entry whose
\* destination is open before and after the step leaves the buffer only by
\* being sent, once and unchanged, in that step; (e) an update flush sends
\* nothing that was not buffered.
EntryIs(e, d, c, seq, message) ==
    e.client = d /\ e.from = c /\ e.seq = seq /\ e.message = message

Relays(o, e) == o.by = "update" /\ EntryIs(e, o.to, o.from, o.seq, o.msg)

AllUpdateEntries == UNION { Range(updateBuffers[r]) : r \in DOMAIN updateBuffers }

C3_Merged ==
    \A c \in DOMAIN own :
      Live(c) /\ MapHas(docs, roomName[c]) => own[c] \subseteq ydoc[docs[roomName[c]]]

C3_Enqueued ==
    \A c \in (DOMAIN own) \cap (DOMAIN own') :
      own'[c] # own[c] =>
        \A d \in LiveIn(roomName[c]) \ {c} :
          Cardinality({ i \in 1..Len(UpdateBufferOf(roomName[c])') :
                          EntryIs(UpdateBufferOf(roomName[c])'[i], d, c, nframes',
                                  UpdateFrame(own'[c] \ own[c])) }) = 1

C3_WithinRoom ==
    \A e \in AllUpdateEntries :
      e.client # e.from /\ roomConnections[e.client] = roomConnections[e.from]

C3_SentOnce ==
    \A e \in AllUpdateEntries :
      (Live(e.client) /\ Live(e.client)' /\ e \notin AllUpdateEntries') =>
        Cardinality({ k \in 1..Len(out') : Relays(out'[k], e) }) = 1

C3_NothingElse ==
    \A k \in 1..Len(out') :
      out'[k].by = "update" => \E e \in AllUpdateEntries : Relays(out'[k], e)

C3_UpdateRelay ==
    [][ /\ C3_Merged'
        /\ C3_Enqueued
        /\ C3_WithinRoom'
        /\ C3_SentOnce
        /\ C3_NothingElse ]_vars

\* ---------------------------------------------------------------------
\* C4  FIFO per (room, destination).  Frames are numbered in the order the
\* server receives them.  In every reachable state: what an update flush
\* sent one destination is in increasing frame order; every entry still
\* buffered for that destination is of a later frame than anything the
\* flush sent it; and the entries buffered for one destination are in
\* increasing frame order, none of a frame not yet received.
Increasing(q) == \A i, j \in 1..Len(q) : i < j => q[i].seq < q[j].seq

C4_Fifo ==
    \A d \in Admitted :
      /\ Increasing(FlushedTo(out, d, "update"))
      /\ \A r \in DOMAIN updateBuffers :
           LET pending == SelectSeq(updateBuffers[r], LAMBDA e : e.client = d)
           IN  /\ Increasing(pending)
               /\ \A e \in Range(pending) :
                    /\ e.seq <= nframes
                    /\ \A o \in Range(FlushedTo(out, d, "update")) : o.seq < e.seq

\* One flush has sent one destination two frames.
C4_Witness ==
    \E d \in Admitted : Len(FlushedTo(out, d, "update")) >= 2

\* ---------------------------------------------------------------------
\* C5  In every reachable state, every frame an update flush or a presence
\* flush sent went to a connection that was, when it was sent, in the
\* connection set of its room: no close and no transport error had removed
\* it.
C5_FlushOnlyToActive ==
    \A o \in Range(out) : o.by \in {"update", "awareness"} => o.member

\* A flush has sent frames in a room one of whose connections a transport
\* error has taken out of the set.
C5_Witness ==
    \E o \in Range(out) :
      /\ o.by \in {"update", "awareness"}
      /\ \E x \in errorEmitted :
           x # o.to /\ x # o.from /\ roomConnections[x] = roomConnections[o.to]

\* ---------------------------------------------------------------------
\* C6  The STEP1 frame of an admission reflects the updates received
\* before.  In every step that admits a connection under room id r, the
\* state vector sent to it holds every update merged into the document of
\* any open connection of r, and the payload of every entry buffered for an
\* open destination of r.
C6_Step1ReflectsUpdates ==
    [][ \A c \in Admitted' \ Admitted :
          LET r == roomName'[c]
              sv == out'[1].msg[3]
          IN  /\ \A p \in LiveIn(r) : ydoc[doc[p]] \subseteq sv
              /\ \A p \in LiveIn(r) : own[p] \subseteq sv
              /\ \A e \in Range(UpdateBufferOf(r)) :
                   Live(e.client) => e.message[3] \subseteq sv ]_vars

\* ---------------------------------------------------------------------
\* C7  In every step that admits a connection c, the callback sends exactly
\* one frame, the STEP1 of the room's document, to c, c being in the room's
\* set when it is sent; and at that point no frame of c has been processed:
\* the step processes no frame, c has sent no update, has had no STEP1
\* answered, and no buffered entry comes from c.
C7_Step1AfterAddBeforeFrames ==
    [][ \A c \in Admitted' \ Admitted :
          /\ out' = << [ to |-> c, msg |-> SyncStep1Frame(ydoc'[doc'[c]]),
                         by |-> "step1", seq |-> 0, from |-> 0,
                         failed |-> FALSE, member |-> TRUE ] >>
          /\ c \in connSet'[roomConnections'[c]]
          /\ nframes' = nframes
          /\ own'[c] = {}
          /\ c \notin synced'
          /\ \A r \in DOMAIN updateBuffers' :
               \A e \in Range(updateBuffers'[r]) : e.from # c
          /\ \A r \in DOMAIN awarenessBuffers' :
               \A e \in Range(awarenessBuffers'[r]) : e.from # c ]_vars

\* A connection has just been admitted to a room that already holds updates.
C7_Witness ==
    \E o \in Range(out) :
      o.by = "step1" /\ o.member /\ o.to \in Admitted /\ o.msg[3] # {}

\* ---------------------------------------------------------------------
\* The presence flush of timer t runs in this step.
AwarenessFlushFires(t) ==
    /\ t \in timeouts
    /\ t.kind = "awareness"
    /\ t \notin timeouts'
    /\ nframes' = nframes
    /\ readyState' = readyState

\* The last entry the buffer holds from sender s for destination d.
LatestFrom(buffer, s, d) ==
    LET mine == SelectSeq(buffer, LAMBDA e : e.from = s /\ e.client = d)
    IN  mine[Len(mine)]

\* C8  Presence collapsing.  In every step in which a room's presence flush
\* runs, for every sender with entries in the buffer and every open
\* destination of those entries, the flush sends the destination exactly one
\* frame of that sender, and it is the last one the sender sent: no earlier
\* value of the sender is sent.
C8_PresenceCollapses ==
    [][ \A t \in timeouts :
          AwarenessFlushFires(t) =>
            LET buffer == AwarenessBufferOf(t.room)
            IN  \A e \in Range(buffer) :
                  readyState[e.client] = OPEN =>
                    LET sent == SelectSeq(out', LAMBDA o : /\ o.by = "awareness"
                                                           /\ o.to = e.client
                                                           /\ o.from = e.from)
                        latest == LatestFrom(buffer, e.from, e.client)
                    IN  /\ Len(sent) = 1
                        /\ sent[1].seq = latest.seq
                        /\ sent[1].msg = latest.message ]_vars

\* C9  Presence is kept per (sender, destination).  In every step in which a
\* room's presence flush runs, when the buffer holds entries of two
\* different senders for the same open destination, the flush sends that
\* destination the latest frame of the one and the latest frame of the
\* other.
C9_PresencePerSender ==
    [][ \A t \in timeouts :
          AwarenessFlushFires(t) =>
            LET buffer == AwarenessBufferOf(t.room)
            IN  \A e1, e2 \in Range(buffer) :
                  ( /\ e1.client = e2.client
                    /\ e1.from # e2.from
                    /\ readyState[e1.client] = OPEN ) =>
                    \E o1, o2 \in Range(out') :
                      /\ o1.to = e1.client /\ o1.from = e1.from
                      /\ o1.seq = LatestFrom(buffer, e1.from, e1.client).seq
                      /\ o2.to = e2.client /\ o2.from = e2.from
                      /\ o2.seq = LatestFrom(buffer, e2.from, e2.client).seq ]_vars

\* ---------------------------------------------------------------------
\* The pending update-flush timers of room r.
UpdateTimers(pending, r) == { t \in pending : t.kind = "update" /\ t.room = r }

\* An UPDATE frame of room r is processed in this step: the room's timer
\* handle is the one armed for the frame.
UpdateArrives(r) ==
    /\ nframes' # nframes
    /\ MapHas(flushTimers', r)
    /\ flushTimers'[r] = nframes'

\* The update flush of timer t runs in this step.
FlushFires(t) ==
    /\ t \in timeouts
    /\ t.kind = "update"
    /\ t \notin timeouts'
    /\ nframes' = nframes
    /\ readyState' = readyState

\* At most one update-flush timer is pending per room, it is the one the
\* room's handle names, its delay is D1, and a room whose buffer holds
\* entries has its timer pending.
OneTimerPerRoom ==
    \A r \in RoomNames :
      /\ Cardinality(UpdateTimers(timeouts, r)) <= 1
      /\ \A t \in UpdateTimers(timeouts, r) :
           MapHas(flushTimers, r) /\ flushTimers[r] = t.id /\ t.delay = FLUSH_INTERVAL
      /\ MapHas(flushTimers, r) => UpdateTimers(timeouts, r) # {}
      /\ UpdateBufferOf(r) # <<>> => UpdateTimers(timeouts, r) # {}

\* C10  Debounce.  In every step: the state reached has at most one update
\* timer pending per room (OneTimerPerRoom); an UPDATE received in room r
\* leaves exactly the timer armed for it, with delay D1, pending for r; and
\* a flush that fires sends, once each and nothing else, every buffered
\* entry whose destination is open, and leaves the room's buffer empty, no
\* update timer pending for the room and no timer handle.  (Time is not
\* modelled: a pending timer fires at some point unless it is cancelled.)
C10_Debounce ==
    [][ /\ OneTimerPerRoom'
        /\ \A r \in RoomNames :
             UpdateArrives(r) =>
               UpdateTimers(timeouts', r) =
                 { [ id |-> nframes', kind |-> "update", room |-> r,
                     delay |-> FLUSH_INTERVAL ] }
        /\ \A t \in timeouts :
             FlushFires(t) =>
               LET due == SelectSeq(UpdateBufferOf(t.room),
                                    LAMBDA e : readyState[e.client] = OPEN)
               IN  /\ \A e \in Range(due) :
                        Cardinality({ k \in 1..Len(out') : Relays(out'[k], e) }) = 1
                   /\ Len(out') = Len(due)
                   /\ UpdateBufferOf(t.room)' = <<>>
                   /\ UpdateTimers(timeouts', t.room) = {}
                   /\ ~MapHas(flushTimers', t.room) ]_vars

\* One flush has delivered the entries of two UPDATE frames, and left the
\* buffer empty and no timer pending.
C10_Witness ==
    \E o1, o2 \in Range(out) :
      /\ o1.by = "update" /\ o2.by = "update" /\ o1.seq # o2.seq
      /\ \A r \in RoomNames : UpdateBufferOf(r) = <<>> /\ ~MapHas(flushTimers, r)
      /\ timeouts = {}

\* ---------------------------------------------------------------------
\* Every room name a connection has been admitted under.
KnownRooms == RoomNames \cup { roomName[c] : c \in Admitted }

\* The connections admitted under r whose 'close' has not been emitted.
Unclosed(r) == { c \in Admitted : roomName[c] = r /\ readyState[c] # CLOSED }

\* The registry holds nothing for room id r, and no timer of r is pending.
RoomReleased(r) ==
    /\ ~MapHas(docs, r) /\ ~MapHas(connections, r)
    /\ ~MapHas(updateBuffers, r) /\ ~MapHas(awarenessBuffers, r)
    /\ ~MapHas(flushTimers, r) /\ ~MapHas(awarenessFlushTimers, r)
    /\ \A t \in timeouts : t.room # r

\* C11  Room GC.  In every step, for every room id r: (a) when the step
\* closes the last connection of r whose close was outstanding, the state
\* reached holds no document, connection set, buffer, timer handle or
\* pending timer for r; (b) from a state in which r is released, no flush
\* sends a frame to a connection of r; (c) a connection admitted under r
\* from such a state gets a document object not used before, it is empty,
\* and the STEP1 sent carries the empty state vector.
C11_RoomGC ==
    [][ \A r \in KnownRooms' :
          /\ (Unclosed(r) # {} /\ Unclosed(r)' = {}) => RoomReleased(r)'
          /\ RoomReleased(r) =>
               \A k \in 1..Len(out') :
                 (out'[k].by \in {"update", "awareness"}) => roomName[out'[k].to] # r
          /\ RoomReleased(r) =>
               \A c \in Admitted' \ Admitted :
                 roomName'[c] = r =>
                   /\ ~MapHas(ydoc, doc'[c])
                   /\ ydoc'[doc'[c]] = {}
                   /\ out'[1].msg = SyncStep1Frame({}) ]_vars

\* A room was released with a debounced flush outstanding, and a later
\* connection has just been admitted under its id.
C11_Witness ==
    \E c \in Admitted :
      /\ Len(out) = 1
      /\ out[1].to = c /\ out[1].by = "step1" /\ out[1].msg = SyncStep1Frame({})
      /\ doc[c] = c
      /\ nframes >= 1
      /\ Admitted # {c}
      /\ \A x \in Admitted \ {c} : readyState[x] = CLOSED
      /\ timeouts = {}

\* ---------------------------------------------------------------------
\* A room id of exactly one non-empty path segment.
SingleSegment(name) == Len(name) >= 1 /\ \A i \in 1..Len(name) : name[i] # "/"

\* C12  In every reachable state, every connection the server has accepted
\* either is in a room whose id is one non-empty path segment, or has been
\* refused with close code 1008 and is in no room.
C12_OnlySingleSegmentAdmitted ==
    \A c \in Accepted :
      IF c \in Admitted
      THEN SingleSegment(roomName[c])
      ELSE /\ MapHas(closeCode, c) /\ closeCode[c] = PolicyViolation
           /\ \A h \in DOMAIN connSet : c \notin connSet[h]

\* ---------------------------------------------------------------------
\* C13  In every step in which the server accepts a connection and does not
\* admit it, the documents, the rooms' connection sets, both buffers, both
\* flush-timer maps, the pending timers and the heartbeat timers are what
\* they were, and the callback sends no frame: no STEP1 goes to the refused
\* connection.
C13_RefusalChangesNothing ==
    [][ \A c \in Accepted' \ Accepted :
          c \notin Admitted' =>
            /\ UNCHANGED << docs, connections, ydoc, connSet, updateBuffers,
                            awarenessBuffers, flushTimers, awarenessFlushTimers,
                            timeouts, heartbeats, intervals >>
            /\ out' = <<>>
            /\ closeCode'[c] = PolicyViolation ]_vars

\* The last connection accepted was refused while a room with a connection,
\* a buffer and a pending flush exists.
C13_Witness ==
    \E c \in Accepted \ Admitted :
      /\ c = Cardinality(Accepted)
      /\ closeCode[c] = PolicyViolation
      /\ out = <<>>
      /\ \E r \in DOMAIN docs : UpdateBufferOf(r) # <<>> /\ MapHas(flushTimers, r)

\* ---------------------------------------------------------------------
\* C14  Partial failure isolation.  In every step in which an update flush
\* runs and a send of it fails, every open destination the sends to which do
\* not fail is sent exactly its buffered entries, unchanged and in the order
\* they were buffered, and the flush leaves the room's buffer empty.
C14_FailureIsolated ==
    [][ \A t \in timeouts :
          (FlushFires(t) /\ \E k \in 1..Len(out') : out'[k].failed) =>
            /\ \A d \in Admitted \ broken :
                 readyState[d] = OPEN =>
                   LET mine == SelectSeq(UpdateBufferOf(t.room),
                                         LAMBDA e : e.client = d)
                       sent == FlushedTo(out', d, "update")
                   IN  /\ Len(sent) = Len(mine)
                       /\ \A i \in 1..Len(mine) :
                            Relays(sent[i], mine[i]) /\ ~sent[i].failed
            /\ UpdateBufferOf(t.room)' = <<>> ]_vars

\* One flush has had a send fail to one destination and has sent another
\* destination two frames.
C14_Witness ==
    \E k \in 1..Len(out) :
      /\ out[k].by = "update" /\ out[k].failed
      /\ \E d \in Admitted \ {out[k].to} :
           /\ Len(FlushedTo(out, d, "update")) >= 2
           /\ \A o \in Range(FlushedTo(out, d, "update")) : ~o.failed
      /\ \A r \in KnownRooms : UpdateBufferOf(r) = <<>>

\* ---------------------------------------------------------------------
\* C15  In every step in which a send callback runs with an error (for a
\* send of an update flush, of a presence flush, of the admission STEP1 or
\* of a direct sync reply), the destination of that send is not in its
\* room's connection set in the state reached, so that no later frame is
\* enqueued for it.
C15_FailedDestinationRemoved ==
    [][ \A cb \in callbacks :
          cb \notin callbacks' =>
            \A h \in DOMAIN connSet' : cb.to \notin connSet'[h] ]_vars

\* ---------------------------------------------------------------------
\* C16  In every step in which the 'message' handler processes a frame on
\* which decoding throws, the documents, the connection sets (the sender
\* still in its room's set), both buffers, both flush-timer maps and the
\* pending timers are what they were, and the callback sends nothing to any
\* connection.
C16_UndecodableFrameDropped ==
    [][ \A c \in DOMAIN clientDoc :
          \A frame \in BadFrames :
            (Throws(frame) /\ Message(c, frame)) =>
              /\ UNCHANGED << docs, connections, ydoc, connSet, updateBuffers,
                              awarenessBuffers, flushTimers, awarenessFlushTimers,
                              timeouts >>
              /\ out' = <<>> ]_vars

\* ---------------------------------------------------------------------
\* C17  A transport error tears the room down like a close.  In every
\* reachable state, every room the registry holds a connection set for has
\* at least one connection in that set: whichever handler removed the last
\* connection released the room in the same step.
C17_NoEmptyRegisteredRoom ==
    \A r \in DOMAIN connections : connSet[connections[r]] # {}

\* ---------------------------------------------------------------------
\* C19  A room is removed only when empty.  In every step that removes the
\* registry entry of room id r: the connection set registered for r held no
\* connection other than the one the step closes, and no connection admitted
\* under r is, in the state reached, open and in its connection set.
C19_RemovedOnlyWhenEmpty ==
    [][ \A r \in DOMAIN connections :
          ~MapHas(connections', r) =>
            /\ \A c \in connSet[connections[r]] : readyState'[c] = CLOSED
            /\ \A c \in Admitted :
                 (roomName[c] = r /\ readyState'[c] = OPEN) =>
                   c \notin connSet'[roomConnections[c]] ]_vars

\* ---------------------------------------------------------------------
\* C20  Teardown is idempotent.  In every step in which 'close' is emitted
\* for a connection that is no longer in its room's connection set (an
\* error handler removed it before), the registry of documents and
\* connection sets, both buffers, both flush-timer maps, the pending timers
\* and the heartbeat timers are what they were.
C20_TeardownIdempotent ==
    [][ \A c \in Admitted :
          ( /\ readyState[c] # CLOSED
            /\ readyState'[c] = CLOSED
            /\ c \notin connSet[roomConnections[c]] ) =>
            UNCHANGED << docs, connections, updateBuffers, awarenessBuffers,
                         flushTimers, awarenessFlushTimers, timeouts,
                         heartbeats, intervals >> ]_vars

\* ------------------------------------------------------------------ C18
\* The timestamps of a request history that lie in the window of length
\* windowMs that starts after `start` and ends at start + windowMs.
Within(history, start) ==
    SelectSeq(history, LAMBDA t : t > start /\ t <= start + windowMs)

\* The request history the guard holds for an address.
HistoryOf(map, ip) == IF ip \in DOMAIN map THEN map[ip] ELSE <<>>

\* The windows that can hold a request of a run.
WindowStarts == { k * tickMs - windowMs : k \in 0..(GuardTicks + 2) }

IsPrefix(s, t) == Len(s) <= Len(t) /\ SubSeq(t, 1, Len(s)) = s

\* A step is a call of the guard for ip.
CallFor(ip) == reply'.n # reply.n /\ reply'.ip = ip

\* No window of an address holds more than maxRequests admitted requests.
WindowHoldsAtMost ==
    \A ip \in IPs : \A start \in WindowStarts :
        Len(Within(HistoryOf(requestMap, ip), start)) <= maxRequests

\* A call is admitted and recorded while the window that ends now holds
\* fewer than maxRequests requests of the address, and is otherwise rejected
\* with RATE_LIMIT_EXCEEDED and leaves every history as it was.
CallDecided ==
    \A ip \in IPs : CallFor(ip) =>
        LET held == Within(HistoryOf(requestMap, ip), now - windowMs)
        IN  IF Len(held) < maxRequests
            THEN /\ reply'.code = "allowed"
                 /\ Within(HistoryOf(requestMap', ip), now - windowMs)
                      = Append(held, now)
            ELSE /\ reply'.code = "RATE_LIMIT_EXCEEDED"
                 /\ requestMap' = requestMap

\* No step forgets an admitted request of the window that ends now, and
\* only an admitted call adds one.
WindowKept ==
    \A ip \in IPs :
        LET old == Within(HistoryOf(requestMap, ip), now' - windowMs)
            new == Within(HistoryOf(requestMap', ip), now' - windowMs)
        IN  /\ IsPrefix(old, new)
            /\ new # old => CallFor(ip) /\ reply'.code = "allowed"

\* C18: for every client address and every window of length windowMs,
\* canActivate admits at most maxRequests requests of the address with
\* timestamps in the window; each further request in the window is rejected
\* with RATE_LIMIT_EXCEEDED and is not recorded in the address's history.
C18_WindowLimit ==
    /\ []WindowHoldsAtMost
    /\ [][CallDecided /\ WindowKept]_vars

\* An address whose window is full, with requests admitted at two different
\* times of the window after an older request has left it, is rejected.
C18_Witness ==
    /\ reply.code = "RATE_LIMIT_EXCEEDED"
    /\ now = windowMs
    /\ LET held == Within(HistoryOf(requestMap, reply.ip), now - windowMs)
       IN  /\ Len(held) = maxRequests
           /\ held[1] = tickMs
           /\ held[Len(held)] = now
           /\ Len(HistoryOf(requestMap, reply.ip)) = maxRequests

\* ------------------------------------------------------------------ C21
\* The step leaves both buffers, both flush-timer maps and the pending
\* timers as they were.
NothingQueued ==
    UNCHANGED << updateBuffers, awarenessBuffers, flushTimers,
                 awarenessFlushTimers, timeouts >>

\* C21  Handshake frames are never fanned out.  In every step in which the
\* 'message' handler of connection c processes a STEP1 frame, the callback
\* sends exactly one frame, to c, the STEP2 that carries what c's document
\* holds and the frame's state vector lacks, and every document is what it
\* was; in every step in which it processes a STEP2 frame, c's document
\* holds what it held and the frame's payload, and the callback sends
\* nothing; in both, nothing is appended to a buffer and no flush timer is
\* armed.
C21_HandshakeNotFannedOut ==
    [][ \A c \in DOMAIN clientDoc :
          \A frame \in InFrames(c) :
            /\ (IsStep1Frame(frame) /\ Message(c, frame)) =>
                 /\ Len(out') = 1
                 /\ out'[1].to = c
                 /\ out'[1].msg
                      = SyncStep2Frame(ydoc[doc[c]] \ frame[3])
                 /\ ydoc' = ydoc
                 /\ NothingQueued
            /\ (IsStep2Frame(frame) /\ Message(c, frame)) =>
                 /\ ydoc' = [ydoc EXCEPT ![doc[c]] = @ \cup frame[3]]
                 /\ out' = <<>>
                 /\ NothingQueued ]_vars

\* A connection has just been answered a STEP2 that carries an update, while
\* another connection of its room is open and in the room's set.
C21_Witness ==
    /\ Len(out) = 1
    /\ out[1].by = "reply"
    /\ IsStep2Frame(out[1].msg) /\ out[1].msg[3] # {}
    /\ \E d \in Admitted \ {out[1].to} :
         /\ readyState[d] = OPEN
         /\ roomConnections[d] = roomConnections[out[1].to]
         /\ d \in connSet[roomConnections[d]]

\* ------------------------------------------------------------------ C22
\* A frame the decoder reads to the end and whose kind is neither SYNC nor
\* PRESENCE, or a SYNC frame whose sub-kind is none of STEP1, STEP2, UPDATE.
UnknownKind(frame) ==
    /\ Len(frame) >= 1
    /\ \/ frame[1] \notin {messageSync, messageAwareness}
       \/ frame[1] = messageSync /\ Len(frame) >= 2 /\ frame[2] \notin {0, 1, 2}

\* C22  In every step in which the 'message' handler processes a frame of
\* an unknown kind, or a SYNC frame of an unknown sub-kind, the documents,
\* the connection sets, both buffers, both flush-timer maps and the pending
\* timers are what they were, and the callback sends nothing, to the sender
\* or to anyone else.
C22_UnknownIgnored ==
    [][ \A c \in DOMAIN clientDoc :
          \A frame \in BadFrames :
            (UnknownKind(frame) /\ Message(c, frame)) =>
              /\ UNCHANGED << docs, connections, ydoc, connSet, updateBuffers,
                              awarenessBuffers, flushTimers, awarenessFlushTimers,
                              timeouts, heartbeats, intervals >>
              /\ out' = <<>> ]_vars

\* A SYNC frame of an unknown sub-kind has just been processed in a room
\* that holds a buffered update and a pending flush.
C22_Witness ==
    /\ handled = "nosub"
    /\ out = <<>>
    /\ \E r \in DOMAIN updateBuffers :
         /\ updateBuffers[r] # <<>>
         /\ \E t \in timeouts : t.room = r /\ t.kind = "update"

\* ------------------------------------------------------------------ C23
\* C23  In every step in which the heartbeat interval of connection c
\* ticks: if c's socket is open the callback sends one probe, to c, and the
\* heartbeat timers are what they were; if it is not open the callback
\* sends nothing and c's heartbeat timer, and no other, is cancelled; in
\* both cases the documents, the rooms' connection sets (c still where it
\* was), both buffers, both flush-timer maps and the pending timers are what
\* they were.
C23_HeartbeatTick ==
    [][ \A c \in Admitted :
          HeartbeatTick(c) =>
            /\ IF readyState[c] = OPEN
               THEN /\ Len(out') = 1
                    /\ out'[1].to = c /\ out'[1].by = "ping"
                    /\ UNCHANGED << intervals, heartbeats >>
               ELSE /\ out' = <<>>
                    /\ intervals' = intervals \ {c}
                    /\ heartbeats' = [ x \in (DOMAIN heartbeats) \ {c} |->
                                         heartbeats[x] ]
            /\ UNCHANGED << docs, connections, ydoc, connSet, updateBuffers,
                            awarenessBuffers, flushTimers, awarenessFlushTimers,
                            timeouts >> ]_vars

\* The heartbeat of a socket that is closing has ticked and cancelled
\* itself: the socket has seen neither 'error' nor 'close', has no heartbeat
\* timer, and is still in its room's set.
C23_Witness ==
    \E c \in Admitted :
      /\ readyState[c] = CLOSING
      /\ c \notin errorEmitted
      /\ c \notin intervals /\ ~MapHas(heartbeats, c)
      /\ c \in connSet[roomConnections[c]]

\* ------------------------------------------------------------------ C24
\* The heartbeat timers that exist for connection c: the scheduled intervals
\* whose callback pings c.  An interval is named after the socket it pings.
HeartbeatTimersOf(c) == { i \in intervals : i = c }

\* In every state: a connection that is open and has seen neither 'error'
\* nor 'close' has exactly one heartbeat timer, the one the heartbeat map
\* holds for it; a connection whose 'close' or 'error' handler has run, or
\* that was refused, has none, in the map or scheduled.
HeartbeatsOfLiveOnly ==
    \A c \in Accepted :
      /\ Live(c) =>
           /\ Cardinality(HeartbeatTimersOf(c)) = 1
           /\ MapHas(heartbeats, c) /\ heartbeats[c] \in HeartbeatTimersOf(c)
      /\ (c \notin Admitted \/ TornDown(c)) =>
           /\ HeartbeatTimersOf(c) = {}
           /\ ~MapHas(heartbeats, c)

\* In every step that admits c, c's timer is the one timer created; in
\* every step that runs the 'close' or the 'error' handler of c, the timers
\* of every other connection are what they were.
HeartbeatsOfOthersKept ==
    \A c \in Accepted' :
      LET admitted == c \in Admitted' \ Admitted
          closed == c \in Admitted /\ readyState[c] # CLOSED /\ readyState'[c] = CLOSED
          failed == c \in Admitted /\ c \notin errorEmitted /\ c \in errorEmitted'
      IN  /\ admitted => intervals' = intervals \cup {c}
          /\ (admitted \/ closed \/ failed) =>
               /\ intervals' \ {c} = intervals \ {c}
               /\ \A d \in Accepted \ {c} :
                    /\ MapHas(heartbeats', d) = MapHas(heartbeats, d)
                    /\ MapHas(heartbeats, d) => heartbeats'[d] = heartbeats[d]

\* C24  Each admitted connection has exactly one heartbeat timer; the close
\* or the error of connection c cancels c's heartbeat timer and leaves every
\* other connection's heartbeat timer unchanged, so that in every reachable
\* state no heartbeat timer exists for a connection whose close or error
\* handler has run, or for a refused connection.
C24_OneHeartbeatEach ==
    /\ []HeartbeatsOfLiveOnly
    /\ [][HeartbeatsOfOthersKept]_vars

\* One connection of a room has closed and one has failed while a third is
\* open with its heartbeat timer.
C24_Witness ==
    \E c, d, e \in Admitted :
      /\ readyState[c] = CLOSED
      /\ d \in errorEmitted /\ readyState[d] # CLOSED
      /\ Live(e) /\ heartbeats[e] \in intervals
      /\ roomName[c] = roomName[e]

\* ------------------------------------------------------------------ C25
\* An address that has sent more than maxFailures requests within one
\* window is banned.
BannedPastMaxFailures ==
    \A ip \in IPs : RequestCount(ip) > maxFailures => MapHas(bannedIPs, ip)

\* A request of an address whose ban has not ended is rejected with
\* IP_BANNED, and a step that bans an address sets the end of the ban
\* banDuration from now and drops the address's request history.
BanEnforced ==
    \A ip \in IPs :
      /\ ( /\ reply'.n # reply.n /\ reply'.ip = ip
           /\ MapHas(bannedIPs, ip) /\ now < bannedIPs[ip] ) =>
             /\ reply'.code = "IP_BANNED"
             /\ bannedIPs'[ip] = bannedIPs[ip]
      /\ (~MapHas(bannedIPs, ip) /\ MapHas(bannedIPs', ip)) =>
             /\ bannedIPs'[ip] = now + banDuration
             /\ ~MapHas(requestMap', ip)

\* C25  Rate-limit guard ban.  An address that keeps sending requests past
\* the limit until its request count reaches maxFailures is banned: in
\* every reachable state an address that has sent more than maxFailures
\* requests within one window is banned; from the ban on every request of
\* the address is rejected with IP_BANNED until banDuration has elapsed; and
\* the address's request history is cleared in the step that bans it.
C25_BanAtMaxFailures ==
    /\ []BannedPastMaxFailures
    /\ [][BanEnforced]_vars

\* ------------------------------------------------------------------ C26
\* C26  In every reachable state, all open connections that were admitted
\* under the same room id and have seen neither 'close' nor 'error' share
\* one document handle and one connection set, and that document and that
\* set are the ones the registry holds for the id.
C26_OneRoomOneDocument ==
    \A c \in Admitted :
      Live(c) =>
        /\ \A d \in Admitted :
             (Live(d) /\ roomName[d] = roomName[c]) =>
               /\ doc[d] = doc[c]
               /\ roomConnections[d] = roomConnections[c]
        /\ MapHas(connections, roomName[c])
        /\ connections[roomName[c]] = roomConnections[c]
        /\ MapHas(docs, roomName[c])
        /\ docs[roomName[c]] = doc[c]

\* ------------------------------------------------------------------ C27
\* A flush timer of the given kind is pending for room r: the timer map
\* holds a handle for r and that timeout is scheduled.
TimerPending(timers, r, kind) ==
    /\ MapHas(timers, r)
    /\ \E t \in timeouts : t.id = timers[r] /\ t.room = r /\ t.kind = kind

\* C27  In every reachable state: a non-empty update buffer of room r has
\* an update-flush timer pending for r, a non-empty presence buffer of r a
\* presence-flush timer pending for r, and every buffer, every flush-timer
\* handle and every pending flush timer keyed by r belongs to a room r the
\* registry holds a document and a connection set for.
C27_NothingStranded ==
    /\ \A r \in DOMAIN updateBuffers :
         updateBuffers[r] # <<>> => TimerPending(flushTimers, r, "update")
    /\ \A r \in DOMAIN awarenessBuffers :
         awarenessBuffers[r] # <<>> =>
           TimerPending(awarenessFlushTimers, r, "awareness")
    /\ \A r \in (DOMAIN updateBuffers) \cup (DOMAIN awarenessBuffers)
                \cup (DOMAIN flushTimers) \cup (DOMAIN awarenessFlushTimers)
                \cup { t.room : t \in timeouts } :
         MapHas(docs, r) /\ MapHas(connections, r)

====
